---- MODULE Spec2Model ----
(***************************************************************************)
(* Due-date automation of the Kanban board: the client-side rule evaluator *)
(* (useAutomation), the drag-triggered date-change flow of the Board page  *)
(* and the send-notifications dispatcher, over the shared tasks table.     *)
(***************************************************************************)
EXTENDS Integers, Sequences, FiniteSets, Bags, TLC

\* null / undefined / "" of a string or optional value (all falsy in the code);
\* an optional instant is <<>> or <<instant>>.
NULL == <<>>
\* undefined where the code expects an object (find without a match, no pending move).
Undefined == [undefined |-> TRUE]

\* ---------------------------------------------------------------- bounds
\* Clock ticks per UTC day (a tick is 24h / TicksPerDay).
TicksPerDay == 2
\* The clock runs from StartNow to MaxNow ticks after 2023-12-30T00:00Z.
MaxNow == 4
\* Rows the automation_rules table of the board may hold.
MaxRules == 1
\* Poll cycles whose updates may be in flight at the same time.
MaxPolls == 1
\* Manual task updates (drag, confirm) that may be in flight at the same time.
MaxManual == 2
\* Drops of a task the user makes.
MaxDrags == 1
\* send-notifications invocations that may run at the same time.
MaxInvocations == 2
\* Answered webhook POSTs per task after which the dispatcher is no longer followed.
MaxPosts == 2
\* Task inserts begun, over all users.
MaxInserts == 3

\* ---------------------------------------------------------------- universe
IdOrder == <<"t1", "t2">>
TaskIds == {IdOrder[i] : i \in DOMAIN IdOrder}
Rank(t) == CHOOSE i \in DOMAIN IdOrder : IdOrder[i] = t
Columns == {"A", "B", "C"}
StartNow == TicksPerDay
Today0 == StartNow \div TicksPerDay
Days == 0..((MaxNow \div TicksPerDay) + 1)
Users == {"u1", "u2"}
\* boards.user_id of the board each task's column belongs to.
TaskOwner(t) == IF t = IdOrder[1] THEN "u1" ELSE "u2"
\* Browser timezone offsets east of UTC, in ticks.
TzOffsets == {0, 1}

\* ---------------------------------------------------------------- dates
\* new Date().toISOString().split("T")[0]: the UTC calendar date of an instant as
\* the ten characters YYYY-MM-DD (character codes; day 0 is 2023-12-30, so the
\* window crosses a month and a year boundary).
Digit(n) == 48 + n
toISODate(day) ==
  LET y == IF day < 2 THEN 2023 ELSE 2024
      m == IF day < 2 THEN 12 ELSE 1
      d == IF day < 2 THEN 30 + day ELSE day - 1
  IN  << Digit(y \div 1000), Digit((y \div 100) % 10), Digit((y \div 10) % 10), Digit(y % 10),
         45, Digit(m \div 10), Digit(m % 10),
         45, Digit(d \div 10), Digit(d % 10) >>
toISOString(instant) == toISODate(instant \div TicksPerDay)

\* JavaScript's < and <= on strings: lexicographic on the code units.
StrLess(a, b) ==
  \/ \E i \in 1..Len(a) :
        /\ i <= Len(b)
        /\ a[i] < b[i]
        /\ \A j \in 1..(i - 1) : a[j] = b[j]
  \/ /\ Len(a) < Len(b)
     /\ \A j \in 1..Len(a) : a[j] = b[j]
StrLeq(a, b) == a = b \/ StrLess(a, b)

DateStrings == {toISODate(d) : d \in Days}
\* The calendar day a stored due_date denotes.
DayOf(s) == CHOOSE d \in Days : toISODate(d) = s

\* ---------------------------------------------------------------- state
VARIABLES
  now,                  \* the wall clock, in ticks (UTC)
  tz,                   \* the browser's timezone offset, in ticks east of UTC
  tasksTable,           \* Store: the tasks table, by task id
  rulesTable,           \* Store: the automation_rules table, in insertion order
  tasks,                \* Board state: the loaded task list
  rulesRef,             \* useAutomation: rulesRef.current
  rules,                \* useAutomation: the rules state (the Board's automationRules)
  polls,                \* poll cycles whose updates are in flight
  manual,               \* moveTask updates in flight
  pendingMove,          \* Board state: the Pending Move
  dateChangeDialogOpen, \* Board state
  selectedDate,         \* DateChangeDialog state: <<>> or <<instant>>
  commits,              \* Store updates issued for the current Pending Move
  drags,                \* drops made so far
  profiles,             \* Store: the profiles table, by user id
  runs,                 \* send-notifications: the invocations under way
  posts,                \* webhook POSTs that were answered, by task id
  mounted,              \* the Board page is mounted
  intervals,            \* useAutomation: interval timers armed and not cleared
  numbered,             \* Store: the task numbers of the committed tasks, with their user
  inserting,            \* Store: task inserts whose trigger has run, not yet committed
  lastOp                \* the last operation and what it did

vars == <<now, tz, tasksTable, rulesTable, tasks, rulesRef, rules, polls, manual,
          pendingMove, dateChangeDialogOpen, selectedDate, commits, drags, profiles, runs, posts,
          mounted, intervals, numbered, inserting, lastOp>>

storeVars == <<tasksTable, rulesTable>>
clockVars == <<now, tz>>
dialogVars == <<pendingMove, dateChangeDialogOpen, selectedDate, commits, drags>>
boardVars == <<tasks, rulesRef, rules, polls, manual, dialogVars>>
dispatchVars == <<profiles, runs, posts>>
hookVars == <<mounted, intervals>>
numberVars == <<numbered, inserting>>

\* ---------------------------------------------------------------- Store reads
Precedes(tbl, a, b) ==
  \/ tbl[a].position < tbl[b].position
  \/ tbl[a].position = tbl[b].position /\ Rank(a) < Rank(b)

\* loadTasks: select * from tasks of the board, order by position.
SelectTasks(tbl) ==
  LET ord == CHOOSE s \in [1..Cardinality(TaskIds) -> TaskIds] :
               \A i, j \in 1..Cardinality(TaskIds) : i < j => Precedes(tbl, s[i], s[j])
  IN  [i \in 1..Cardinality(TaskIds) |->
         [id |-> ord[i],
          column_id |-> tbl[ord[i]].column_id,
          position |-> tbl[ord[i]].position,
          due_date |-> tbl[ord[i]].due_date,
          notification_at |-> tbl[ord[i]].notification_at,
          notification_sent |-> tbl[ord[i]].notification_sent]]

\* loadRules: select * from automation_rules where enabled = true.
SelectEnabledRules(tbl) == SelectSeq(tbl, LAMBDA r : r.enabled)

\* ---------------------------------------------------------------- evaluator
\* The filter with < in place of <=: a task due today is not yet overdue.
overdueTasksStrict(ts, today) ==
  SelectSeq(ts, LAMBDA task : task.due_date # NULL /\ StrLess(task.due_date, today))

\* tasks.filter(task => task.due_date && task.due_date <= today)
overdueTasks(ts, today) ==
  SelectSeq(ts, LAMBDA task : task.due_date # NULL /\ StrLeq(task.due_date, today))

\* A lookup that returns the last matching rule instead of the first.
FindLastRule(rs, column) ==
  IF \E i \in 1..Len(rs) : rs[i].source_column_id = column
  THEN rs[CHOOSE i \in 1..Len(rs) :
            /\ rs[i].source_column_id = column
            /\ \A j \in (i + 1)..Len(rs) : rs[j].source_column_id # column]
  ELSE Undefined

\* rulesRef.current.find(r => r.source_column_id === column): the first match.
FindRule(rs, column) ==
  IF \E i \in 1..Len(rs) : rs[i].source_column_id = column
  THEN rs[CHOOSE i \in 1..Len(rs) :
            /\ rs[i].source_column_id = column
            /\ \A j \in 1..(i - 1) : rs[j].source_column_id # column]
  ELSE Undefined

\* A pairing that pushes one move for every rule on the task's column.
RECURSIVE MatchEveryRule(_, _)
MatchEveryRule(overdue, rs) ==
  IF overdue = <<>> THEN <<>>
  ELSE LET task == Head(overdue)
           mine == SelectSeq(rs, LAMBDA r : r.source_column_id = task.column_id)
       IN  [k \in 1..Len(mine) |->
              [taskId |-> task.id, targetColumnId |-> mine[k].target_column_id]]
             \o MatchEveryRule(Tail(overdue), rs)

RECURSIVE MatchRules(_, _)
MatchRules(overdue, rs) ==
  IF overdue = <<>> THEN <<>>
  ELSE LET task == Head(overdue)
           rule == FindRule(rs, task.column_id)
       IN  IF rule = Undefined
           THEN MatchRules(Tail(overdue), rs)
           ELSE <<[taskId |-> task.id, targetColumnId |-> rule.target_column_id]>>
                  \o MatchRules(Tail(overdue), rs)

\* The tasksToMove list of one run of checkAndMoveOverdueTasks.
tasksToMove(ts, rs, instant) ==
  IF Len(rs) = 0 \/ Len(ts) = 0 THEN <<>>
  ELSE MatchRules(overdueTasks(ts, toISOString(instant)), rs)


\* What one run of checkAndMoveOverdueTasks on the task list ts computed.
CheckRecord(ts, rs, instant) ==
  [ran |-> ~(Len(rs) = 0 \/ Len(ts) = 0),
   today |-> toISOString(instant),
   overdue |-> IF Len(rs) = 0 \/ Len(ts) = 0 THEN {}
               ELSE LET od == overdueTasks(ts, toISOString(instant))
                    IN  {od[i].id : i \in 1..Len(od)},
   tasksToMove |-> tasksToMove(ts, rs, instant)]

\* The updates of one cycle, issued together and awaited with Promise.all.
\* failures: the indices of the updates that came back with an error.
NewPoll(moves) == [moves |-> moves, pending |-> 1..Len(moves), failures |-> {}]

\* An update that is written to the Store although it comes back with an error.
ApplyUpdateDespiteError(tbl, move, ok) ==
  [tbl EXCEPT ![move.taskId].column_id = move.targetColumnId]

\* An update that also puts the task at the top of its new column.
ApplyUpdateResetsPosition(tbl, move, ok) ==
  IF ok THEN [tbl EXCEPT ![move.taskId].column_id = move.targetColumnId,
                         ![move.taskId].position = 0]
  ELSE tbl

\* One update({column_id}).eq("id", taskId) of the batch reaching the Store.
ApplyUpdate(tbl, move, ok) ==
  IF ok THEN [tbl EXCEPT ![move.taskId].column_id = move.targetColumnId] ELSE tbl

\* Toast and reload as soon as some update of the batch went through.
SomeSucceeded(failures, moves) == Cardinality(failures) < Len(moves)

\* failures.length === 0 && tasksToMove.length > 0
AllSucceeded(failures, moves) == failures = {} /\ Len(moves) > 0

\* The polling effect's cleanup: clearInterval(interval) for the interval it set.
Cleanup(armed) == IF armed > 0 THEN armed - 1 ELSE 0

\* A re-run of the effect that sets a new interval without clearing the old one.
RerunLeaks(armed) == armed + 1

\* A run of the polling effect: the cleanup of its previous run, then setInterval.
Rerun(armed) == Cleanup(armed) + 1

\* A check that issues the update of its first move only.
IssueFirstOnly(ps, ts, rs, instant) ==
  LET moves == tasksToMove(ts, rs, instant)
  IN  IF moves = <<>> THEN ps ELSE ps (+) SetToBag({NewPoll(<<Head(moves)>>)})

\* checkAndMoveOverdueTasks up to its await: the cycles in flight afterwards.
Issue(ps, ts, rs, instant) ==
  LET moves == tasksToMove(ts, rs, instant)
  IN  IF moves = <<>> THEN ps ELSE ps (+) SetToBag({NewPoll(moves)})

\* ---------------------------------------------------------------- drag and drop
TaskIdsOf(ts) == {ts[i].id : i \in 1..Len(ts)}
TaskById(ts, id) == ts[CHOOSE i \in 1..Len(ts) : ts[i].id = id]

\* handleDragEnd: the column and position a drop of activeId on overId asks for.
DropTarget(ts, activeId, overId) ==
  IF overId \in TaskIdsOf(ts)
  THEN [column |-> TaskById(ts, overId).column_id,
        position |-> TaskById(ts, overId).position]
  ELSE IF overId \in Columns
  THEN [column |-> overId,
        position |-> Cardinality({i \in 1..Len(ts) : ts[i].column_id = overId})]
  ELSE [column |-> TaskById(ts, activeId).column_id,
        position |-> TaskById(ts, activeId).position]

\* The reading "the drop's column is the target of a rule".
targetIsRuleTarget(rs, targetColumnId) ==
  \E i \in 1..Len(rs) : rs[i].target_column_id = targetColumnId

\* automationRules.some(r => r.source_column_id === targetColumnId)
targetHasRules(rs, targetColumnId) ==
  \E i \in 1..Len(rs) : rs[i].source_column_id = targetColumnId

\* An interception that also holds back a task due today.
InterceptsDueToday(activeTask, targetColumnId, rs, instant) ==
  /\ activeTask.due_date # NULL
  /\ targetColumnId # activeTask.column_id
  /\ targetHasRules(rs, targetColumnId)
  /\ StrLeq(activeTask.due_date, toISOString(instant))

\* handleDragEnd: the drop is held back for the date-change dialog.
Intercepts(activeTask, targetColumnId, rs, instant) ==
  /\ activeTask.due_date # NULL
  /\ targetColumnId # activeTask.column_id
  /\ targetHasRules(rs, targetColumnId)
  /\ StrLess(activeTask.due_date, toISOString(instant))

\* moveTask's update of one row; due_date is part of it only when a date was given.
MoveRequest(taskId, targetColumnId, targetPosition, newDueDate, viaDialog) ==
  [taskId |-> taskId, column_id |-> targetColumnId, position |-> targetPosition,
   due_date |-> newDueDate, viaDialog |-> viaDialog]

\* An update that carries position and due_date but leaves column_id alone.
ApplyMoveKeepsColumn(tbl, r) ==
  [tbl EXCEPT ![r.taskId] =
     [@ EXCEPT !.position = r.position,
               !.due_date = IF r.due_date # NULL THEN r.due_date ELSE @]]

\* An update that always carries due_date, null when no date was given.
ApplyMoveClearsDate(tbl, r) ==
  [tbl EXCEPT ![r.taskId] =
     [@ EXCEPT !.column_id = r.column_id,
               !.position = r.position,
               !.due_date = r.due_date]]

ApplyMove(tbl, r) ==
  [tbl EXCEPT ![r.taskId] =
     [@ EXCEPT !.column_id = r.column_id,
               !.position = r.position,
               !.due_date = IF r.due_date # NULL THEN r.due_date ELSE @]]

\* ---------------------------------------------------------------- date picker
\* new Date(new Date().setHours(0, 0, 0, 0)): local midnight of today, as an instant.
LocalMidnight(instant, offset) == ((instant + offset) \div TicksPerDay) * TicksPerDay - offset
\* The Date the calendar hands to onSelect for a local calendar day: its local midnight.
CalendarDate(day, offset) == day * TicksPerDay - offset
\* The local calendar date of a Date, YYYY-MM-DD, as format(date, "yyyy-MM-dd") gives
\* it (the task editor's way of storing a picked date).
formatLocal(instant, offset) == toISODate((instant + offset) \div TicksPerDay)
\* Calendar's disabled predicate: date < local midnight of today.
disabled(date, instant, offset) == date < LocalMidnight(instant, offset)

\* ---------------------------------------------------------------- dispatcher
\* The query without its .lte('notification_at', now) filter.
DueNotificationsAnyTime(tbl, instant) ==
  SelectSeq(IdOrder, LAMBDA t : /\ tbl[t].notification_sent = FALSE
                                /\ tbl[t].notification_at # NULL)

\* .eq('notification_sent', false).not('notification_at', 'is', null)
\* .lte('notification_at', now): the ids of the due tasks, in id order.
DueNotifications(tbl, instant) ==
  SelectSeq(IdOrder, LAMBDA t : /\ tbl[t].notification_sent = FALSE
                                /\ tbl[t].notification_at # NULL
                                /\ tbl[t].notification_at[1] <= instant)

\* The loop moves on to the next task, or the invocation returns: what is left of it.
Continue(run) ==
  IF Len(run.queue) > 1
  THEN SetToBag({[pc |-> "profile", queue |-> Tail(run.queue),
                  selected |-> run.selected, attempts |-> run.attempts]})
  ELSE EmptyBag

\* What the awaited fetch can do: answer with a status, or throw.
FetchOutcomes == {"2xx", "4xx", "5xx", "throw"}

\* A dispatcher that marks only the deliveries the webhook accepted.
MarksSentOn2xx(outcome) == outcome = "2xx"

\* The try block after fetch returned: mark the notification as sent, whatever the status.
MarksSent(outcome) == outcome # "throw"

\* ---------------------------------------------------------------- Init
Rule(i, s, t, e) ==
  [id |-> i, source_column_id |-> s, target_column_id |-> t, enabled |-> e]

\* Rule tables that addRule, toggleRule and deleteRule can leave behind.
RuleTables ==
  { <<Rule("r1", "A", "B", TRUE)>>,
    <<Rule("r1", "A", "B", TRUE), Rule("r2", "A", "C", TRUE)>>,
    <<Rule("r1", "A", "B", FALSE), Rule("r2", "A", "C", TRUE)>>,
    <<Rule("r1", "A", "B", TRUE), Rule("r2", "B", "C", TRUE)>> }

Row(c, p, d) ==
  [column_id |-> c, position |-> p, due_date |-> d,
   notification_at |-> NULL, notification_sent |-> FALSE]

\* Two tasks of one board: the second sits below the first when they share a column.
TwoTasks(c1, d1, c2, d2) ==
  [t \in TaskIds |->
     IF t = IdOrder[1] THEN Row(c1, 0, d1)
     ELSE Row(c2, IF c2 = c1 THEN 1 ELSE 0, d2)]

\* The Board page before its mount effects have run.
Unmounted ==
  /\ tasks = <<>>
  /\ rulesRef = <<>>
  /\ rules = <<>>
  /\ polls = EmptyBag
  /\ manual = EmptyBag
  /\ pendingMove = Undefined
  /\ dateChangeDialogOpen = FALSE
  /\ selectedDate = NULL
  /\ commits = 0
  /\ drags = 0
  /\ mounted = FALSE
  /\ intervals = 0
  /\ lastOp = [op |-> "init"]

\* No task is being created.
NoInserts ==
  /\ numbered = EmptyBag
  /\ inserting = EmptyBag

\* The dispatcher out of the picture: no profile has a webhook, nothing is invoked.
NotDeployed ==
  /\ profiles = [u \in Users |-> [notification_url |-> NULL]]
  /\ runs = EmptyBag
  /\ posts = [t \in TaskIds |-> 0]
  /\ NoInserts

\* The automation engine alone: any rule table, due dates around today.
Init ==
  /\ now = StartNow
  /\ tz = 0
  /\ \E c1 \in Columns, d1 \in {NULL} \cup DateStrings,
        c2 \in {"A", "B"}, d2 \in {toISODate(0), toISODate(MaxNow \div TicksPerDay)} :
       tasksTable = TwoTasks(c1, d1, c2, d2)
  /\ rulesTable \in RuleTables
  /\ Unmounted
  /\ NotDeployed

\* The Board with its user: an overdue or a due-today task in column A.
InitBoard ==
  /\ now = StartNow
  /\ tz \in TzOffsets
  /\ \E d1 \in {toISODate(0), toISOString(StartNow)} :
       tasksTable = TwoTasks("A", d1, "B", NULL)
  /\ rulesTable \in { <<Rule("r1", "A", "B", TRUE)>>,
                      <<Rule("r1", "A", "B", TRUE), Rule("r2", "B", "C", TRUE)>> }
  /\ Unmounted
  /\ NotDeployed

\* The dispatcher and the tasks it may find due; nobody has the board open.
NotifyRow(at, sent) ==
  [column_id |-> "A", position |-> 0, due_date |-> NULL,
   notification_at |-> at, notification_sent |-> sent]

InitDispatch ==
  /\ now = StartNow
  /\ tz = 0
  /\ \E at1 \in {NULL, <<StartNow>>, <<StartNow + 1>>}, sent1 \in BOOLEAN :
       tasksTable = [t \in TaskIds |->
                       IF t = IdOrder[1] THEN NotifyRow(at1, sent1)
                       ELSE [NotifyRow(<<StartNow>>, FALSE) EXCEPT !.position = 1]]
  /\ rulesTable = <<>>
  /\ Unmounted
  /\ \E url1 \in {NULL, <<"hook">>} :
       profiles = [u \in Users |->
                     [notification_url |-> IF u = "u1" THEN url1 ELSE <<"hook">>]]
  /\ runs = EmptyBag
  /\ posts = [t \in TaskIds |-> 0]
  /\ NoInserts

\* ---------------------------------------------------------------- actions
\* The clock advances.
Tick ==
  /\ now < MaxNow
  /\ now' = now + 1
  /\ lastOp' = [op |-> "tick"]
  /\ UNCHANGED <<numberVars, hookVars, dispatchVars, tz, storeVars, tasks, rulesRef, rules, polls, manual, dialogVars>>

\* loadRules (mount effect, onRulesChange); a failed read leaves the cache as it is.
LoadRules ==
  /\ mounted
  /\ \E ok \in BOOLEAN :
       /\ IF ok
          THEN /\ rulesRef' = SelectEnabledRules(rulesTable)
               /\ rules' = SelectEnabledRules(rulesTable)
          ELSE UNCHANGED <<rulesRef, rules>>
       /\ lastOp' = [op |-> "loadRules",
                     late |-> tasks # <<>> /\ rulesRef = <<>> /\ rulesRef' # <<>>]
  /\ UNCHANGED <<numberVars, hookVars, dispatchVars, clockVars, storeVars, tasks, polls, manual, dialogVars>>

\* The Board page mounts with fresh state: the polling effect runs on the empty
\* list (its check returns early) and sets the interval; the loads it starts come
\* back as LoadRules and LoadTasks.
Mount ==
  /\ ~mounted
  /\ mounted' = TRUE
  /\ tasks' = <<>> /\ rulesRef' = <<>> /\ rules' = <<>>
  /\ pendingMove' = Undefined /\ dateChangeDialogOpen' = FALSE /\ selectedDate' = NULL
  /\ polls' = Issue(polls, tasks', rulesRef', now)
  /\ intervals' = Rerun(intervals)
  /\ lastOp' = [op |-> "mount", cycles |-> polls,
                check |-> CheckRecord(tasks', rulesRef', now)]
  /\ UNCHANGED <<numberVars, dispatchVars, clockVars, storeVars, manual, commits, drags>>

\* The route's boardId changes: the polling effect is cleaned up and runs again, on
\* the lists as they are until the loads started by the change come back.
SwitchBoard ==
  /\ mounted
  /\ polls' = Issue(polls, tasks, rulesRef, now)
  /\ BagCardinality(polls') <= MaxPolls
  /\ intervals' = Rerun(intervals)
  /\ lastOp' = [op |-> "switchBoard", cycles |-> polls,
                check |-> CheckRecord(tasks, rulesRef, now)]
  /\ UNCHANGED <<numberVars, mounted, dispatchVars, clockVars, storeVars, tasks, rulesRef,
                 rules, manual, dialogVars>>

\* The Board page unmounts: the effect's cleanup clears the interval; updates that
\* were sent stay on their way.
Unmount ==
  /\ mounted
  /\ mounted' = FALSE
  /\ intervals' = Cleanup(intervals)
  /\ lastOp' = [op |-> "unmount", cycles |-> polls, table |-> tasksTable]
  /\ UNCHANGED <<numberVars, dispatchVars, clockVars, storeVars, tasks, rulesRef, rules,
                 polls, manual, dialogVars>>

\* The rules have just finished loading, after the check on the loaded task list
\* had returned early for want of rules.
RulesCameLate(last) == last.op = "loadRules" /\ last.late

\* The tasks whose update failed in the cycle that has just ended, if one has.
FailedJustNow(last) ==
  IF last.op = "pollFailed" THEN {last.moves[i].taskId : i \in last.failures} ELSE {}

\* An interval that a failed cycle has stopped: its next callback issues nothing.
TimerTickStoppedByFailure ==
  /\ intervals > 0
  /\ BagCardinality(polls) < MaxPolls
  /\ polls' = IF lastOp.op = "pollFailed" THEN polls ELSE Issue(polls, tasks, rulesRef, now)
  /\ lastOp' = [op |-> "timer", cycles |-> polls, retry |-> FailedJustNow(lastOp),
                lateRules |-> RulesCameLate(lastOp),
                check |-> CheckRecord(tasks, rulesRef, now)]
  /\ UNCHANGED <<numberVars, hookVars, dispatchVars, clockVars, storeVars, tasks, rulesRef, rules, manual, dialogVars>>

\* The polling effect's interval callback: checkAndMoveOverdueTasks on the current list.
TimerTick ==
  /\ intervals > 0
  /\ BagCardinality(polls) < MaxPolls
  /\ polls' = Issue(polls, tasks, rulesRef, now)
  /\ lastOp' = [op |-> "timer", cycles |-> polls, retry |-> FailedJustNow(lastOp),
                lateRules |-> RulesCameLate(lastOp),
                check |-> CheckRecord(tasks, rulesRef, now)]
  /\ UNCHANGED <<numberVars, hookVars, dispatchVars, clockVars, storeVars, tasks, rulesRef, rules, manual, dialogVars>>

\* loadTasks (mount, realtime change event): setTasks re-runs the polling effect,
\* which clears its interval, checks at once on the new list and sets a new interval.
LoadTasks ==
  /\ mounted
  /\ BagCardinality(polls) < MaxPolls
  /\ tasks' = SelectTasks(tasksTable)
  /\ polls' = Issue(polls, tasks', rulesRef, now)
  /\ intervals' = Rerun(intervals)
  /\ lastOp' = [op |-> "loadTasks", cycles |-> polls,
                check |-> CheckRecord(tasks', rulesRef, now)]
  /\ UNCHANGED <<numberVars, mounted, dispatchVars, clockVars, storeVars, rulesRef, rules, manual, dialogVars>>

\* One update of a poll cycle reaches the Store and succeeds or fails. With the last
\* one Promise.all resolves: if none failed, toast and onTasksUpdated (loadTasks,
\* whose setTasks re-runs the effect and so checks again); on a page that has been
\* unmounted since, the toast is shown and the reload changes nothing.
UpdateLands ==
  \E poll \in BagToSet(polls) : \E k \in poll.pending, ok \in BOOLEAN :
    LET move == poll.moves[k]
        table1 == ApplyUpdate(tasksTable, move, ok)
        pending1 == poll.pending \ {k}
        failures1 == poll.failures \cup (IF ok THEN {} ELSE {k})
        others == polls (-) SetToBag({poll})
        moved == {poll.moves[i].taskId : i \in 1..Len(poll.moves)}
    IN  /\ tasksTable' = table1
        /\ IF pending1 # {}
           THEN /\ polls' = others (+) SetToBag({[poll EXCEPT !.pending = pending1,
                                                                !.failures = failures1]})
                /\ lastOp' = [op |-> "updateLands", ok |-> ok, move |-> move,
                              before |-> tasksTable]
                /\ UNCHANGED <<tasks, intervals>>
           ELSE IF ~AllSucceeded(failures1, poll.moves)
           THEN /\ polls' = others
                /\ lastOp' = [op |-> "pollFailed", moved |-> moved, ok |-> ok, move |-> move,
                              before |-> tasksTable, moves |-> poll.moves,
                              failures |-> failures1, toast |-> FALSE,
                              shown |-> tasks, cycles |-> others]
                /\ UNCHANGED <<tasks, intervals>>
           ELSE IF ~mounted
           THEN /\ polls' = others
                /\ lastOp' = [op |-> "lateResult", ok |-> ok, move |-> move,
                              before |-> tasksTable, toast |-> TRUE]
                /\ UNCHANGED <<tasks, intervals>>
           ELSE /\ tasks' = SelectTasks(table1)
                /\ polls' = Issue(others, tasks', rulesRef, now)
                /\ intervals' = Rerun(intervals)
                /\ lastOp' = [op |-> "pollDone", moved |-> moved, cycles |-> others,
                              ok |-> ok, move |-> move, before |-> tasksTable,
                              moves |-> poll.moves, failures |-> failures1, toast |-> TRUE,
                              check |-> CheckRecord(tasks', rulesRef, now)]
        /\ UNCHANGED <<numberVars, mounted, dispatchVars, clockVars, rulesTable, rulesRef, rules, manual, dialogVars>>

\* handleDragEnd for a task dropped on another task or on a column.
HandleDragEnd ==
  /\ drags < MaxDrags /\ drags' = drags + 1
  /\ ~(pendingMove # Undefined /\ dateChangeDialogOpen)
  /\ \E activeId \in TaskIdsOf(tasks) :
     \E overId \in (TaskIdsOf(tasks) \ {activeId}) \cup Columns :
       LET activeTask == TaskById(tasks, activeId)
           target == DropTarget(tasks, activeId, overId)
           held == Intercepts(activeTask, target.column, rules, now)
       IN  /\ IF held
              THEN /\ pendingMove' = [taskId |-> activeId,
                                      targetColumnId |-> target.column,
                                      targetPosition |-> target.position]
                   /\ dateChangeDialogOpen' = TRUE
                   /\ commits' = 0
                   /\ UNCHANGED <<manual, selectedDate>>
              ELSE /\ BagCardinality(manual) < MaxManual
                   /\ manual' = manual (+) SetToBag({MoveRequest(activeId, target.column,
                                                                   target.position, NULL, FALSE)})
                   /\ UNCHANGED <<pendingMove, dateChangeDialogOpen, selectedDate, commits>>
           /\ lastOp' = [op |-> "dragEnd", taskId |-> activeId,
                         from |-> activeTask.column_id, to |-> target.column,
                         position |-> target.position, held |-> held,
                         inFlight |-> manual]
  /\ UNCHANGED <<numberVars, hookVars, dispatchVars, clockVars, storeVars, tasks, rulesRef, rules, polls>>

\* The user picks a day the calendar does not disable.
SelectDate ==
  /\ pendingMove # Undefined /\ dateChangeDialogOpen
  /\ \E day \in Days :
       /\ ~disabled(CalendarDate(day, tz), now, tz)
       /\ selectedDate' = <<CalendarDate(day, tz)>>
       /\ lastOp' = [op |-> "select", day |-> day]
  /\ UNCHANGED <<numberVars, hookVars, dispatchVars, clockVars, storeVars, tasks, rulesRef, rules, polls, manual,
                 pendingMove, dateChangeDialogOpen, commits, drags>>

\* DateChangeDialog.handleConfirm and handleDateChangeConfirm up to moveTask's await.
HandleConfirm ==
  /\ pendingMove # Undefined /\ dateChangeDialogOpen
  /\ selectedDate # NULL
  /\ BagCardinality(manual) < MaxManual
  /\ LET dateStr == toISOString(selectedDate[1])
     IN  /\ manual' = manual (+) SetToBag({MoveRequest(pendingMove.taskId,
                                                         pendingMove.targetColumnId,
                                                         pendingMove.targetPosition,
                                                         dateStr, TRUE)})
         /\ lastOp' = [op |-> "confirm", dateStr |-> dateStr, today |-> toISOString(now),
                       picked |-> formatLocal(selectedDate[1], tz), inFlight |-> manual]
  /\ selectedDate' = NULL
  /\ commits' = commits + 1
  /\ UNCHANGED <<numberVars, hookVars, dispatchVars, clockVars, storeVars, tasks, rulesRef, rules, polls,
                 pendingMove, dateChangeDialogOpen, drags>>

\* A Cancel that commits the held move without a date, as a Skip exit would.
HandleCancelCommits ==
  /\ pendingMove # Undefined /\ dateChangeDialogOpen
  /\ BagCardinality(manual) < MaxManual
  /\ manual' = manual (+) SetToBag({MoveRequest(pendingMove.taskId,
                                                  pendingMove.targetColumnId,
                                                  pendingMove.targetPosition, NULL, FALSE)})
  /\ selectedDate' = NULL
  /\ dateChangeDialogOpen' = FALSE
  /\ pendingMove' = Undefined
  /\ commits' = 0
  /\ lastOp' = [op |-> "cancel", before |-> tasksTable, inFlight |-> manual,
                pending |-> pendingMove]
  /\ UNCHANGED <<numberVars, hookVars, dispatchVars, clockVars, storeVars, tasks, rulesRef, rules, polls, drags>>

\* DateChangeDialog.handleCancel (Cancel button, closing the dialog) and
\* handleDateChangeCancel.
HandleCancel ==
  /\ pendingMove # Undefined /\ dateChangeDialogOpen
  /\ selectedDate' = NULL
  /\ dateChangeDialogOpen' = FALSE
  /\ pendingMove' = Undefined
  /\ commits' = 0
  /\ lastOp' = [op |-> "cancel", before |-> tasksTable, inFlight |-> manual,
                pending |-> pendingMove]
  /\ UNCHANGED <<numberVars, hookVars, dispatchVars, clockVars, storeVars, tasks, rulesRef, rules, polls, manual, drags>>

\* The Skip & Move exit of the dialog variant that has an onSkip prop; the Board
\* handler behind it, as the specification describes it: the held move is committed
\* through moveTask without a date, then the dialog closes and the Pending Move is
\* cleared, as after Confirm.
HandleSkip ==
  /\ pendingMove # Undefined /\ dateChangeDialogOpen
  /\ BagCardinality(manual) < MaxManual
  /\ manual' = manual (+) SetToBag({MoveRequest(pendingMove.taskId,
                                                  pendingMove.targetColumnId,
                                                  pendingMove.targetPosition, NULL, TRUE)})
  /\ commits' = commits + 1
  /\ lastOp' = [op |-> "skip", inFlight |-> manual]
  /\ UNCHANGED <<numberVars, hookVars, dispatchVars, clockVars, storeVars, tasks, rulesRef, rules, polls,
                 pendingMove, dateChangeDialogOpen, selectedDate, drags>>

\* moveTask after its await: the update succeeded or failed, loadTasks runs (and with
\* it the polling effect); a move confirmed in the dialog then closes the dialog and
\* clears the Pending Move. On a page unmounted since, only the Store has changed.
ManualLands ==
  /\ \E r \in BagToSet(manual), ok \in BOOLEAN :
       LET table1 == IF ok THEN ApplyMove(tasksTable, r) ELSE tasksTable
       IN  /\ tasksTable' = table1
           /\ manual' = manual (-) SetToBag({r})
           /\ tasks' = IF mounted THEN SelectTasks(table1) ELSE tasks
           /\ polls' = IF mounted THEN Issue(polls, tasks', rulesRef, now) ELSE polls
           /\ BagCardinality(polls') <= MaxPolls
           /\ intervals' = IF mounted THEN Rerun(intervals) ELSE intervals
           /\ IF r.viaDialog /\ mounted
              THEN /\ dateChangeDialogOpen' = FALSE
                   /\ pendingMove' = Undefined
                   /\ selectedDate' = NULL
                   /\ commits' = 0
              ELSE UNCHANGED <<pendingMove, dateChangeDialogOpen, selectedDate, commits>>
           /\ drags' = drags
           /\ lastOp' = [op |-> "moveDone", ok |-> ok, request |-> r, cycles |-> polls,
                         before |-> tasksTable[r.taskId],
                         check |-> CheckRecord(tasks', rulesRef, now)]
  /\ UNCHANGED <<numberVars, mounted, dispatchVars, clockVars, rulesTable, rulesRef, rules>>

\* ---------------------------------------------------------------- rule authoring
\* The columns offered in the source and target selects of the settings dialog.
RuleColumns == {"A", "B"}
\* A select of the form with nothing chosen: the empty string.
Unselected == ""
\* gen_random_uuid(): an id no row of the table has.
RuleIds == {"r1", "r2", "r3", "r4"}
NewRuleId(tbl) == CHOOSE i \in RuleIds : \A k \in 1..Len(tbl) : tbl[k].id # i

\* A form check that only asks for both columns to be selected.
BothSelected(sourceColumnId, targetColumnId) ==
  sourceColumnId # Unselected /\ targetColumnId # Unselected

\* addRule's checks before the insert: both columns selected, and different.
Validates(sourceColumnId, targetColumnId) ==
  /\ sourceColumnId # Unselected /\ targetColumnId # Unselected
  /\ sourceColumnId # targetColumnId

\* What the hook's cache holds after an edit of the rules: reloaded when the edit
\* went through, was made in this session's settings dialog (onRulesChange) and the
\* hook's loadRules succeeded; otherwise (another session, a failed read) as before.
AfterEdit(cache, tbl, done, reloaded) ==
  IF done /\ reloaded THEN SelectEnabledRules(tbl) ELSE cache

\* addRule: rejected by the form checks, or inserted with enabled = true.
AddRule ==
  /\ \E sourceColumnId \in RuleColumns \cup {Unselected},
        targetColumnId \in RuleColumns \cup {Unselected},
        ok \in BOOLEAN, reloaded \in BOOLEAN :
       LET done == Validates(sourceColumnId, targetColumnId) /\ ok
           table1 == IF done
                     THEN Append(rulesTable, Rule(NewRuleId(rulesTable), sourceColumnId,
                                                  targetColumnId, TRUE))
                     ELSE rulesTable
       IN  /\ done => Len(rulesTable) < MaxRules
           /\ rulesTable' = table1
           /\ rulesRef' = AfterEdit(rulesRef, table1, done, reloaded)
           /\ rules' = AfterEdit(rules, table1, done, reloaded)
           /\ lastOp' = [op |-> "addRule", source |-> sourceColumnId,
                         target |-> targetColumnId, before |-> rulesTable]
  /\ UNCHANGED <<numberVars, hookVars, dispatchVars, clockVars, tasksTable, tasks, polls, manual, dialogVars>>

\* toggleRule(ruleId, enabled): the switch of a rule row.
ToggleRule ==
  /\ \E k \in 1..Len(rulesTable), enabled \in BOOLEAN, ok \in BOOLEAN, reloaded \in BOOLEAN :
       LET table1 == IF ok THEN [rulesTable EXCEPT ![k].enabled = enabled] ELSE rulesTable
       IN  /\ rulesTable' = table1
           /\ rulesRef' = AfterEdit(rulesRef, table1, ok, reloaded)
           /\ rules' = AfterEdit(rules, table1, ok, reloaded)
           /\ lastOp' = [op |-> "toggleRule", id |-> rulesTable[k].id, enabled |-> enabled]
  /\ UNCHANGED <<numberVars, hookVars, dispatchVars, clockVars, tasksTable, tasks, polls, manual, dialogVars>>

\* deleteRule(ruleId).
DeleteRule ==
  /\ \E k \in 1..Len(rulesTable), ok \in BOOLEAN, reloaded \in BOOLEAN :
       LET table1 == IF ok
                     THEN SubSeq(rulesTable, 1, k - 1) \o SubSeq(rulesTable, k + 1, Len(rulesTable))
                     ELSE rulesTable
       IN  /\ rulesTable' = table1
           /\ rulesRef' = AfterEdit(rulesRef, table1, ok, reloaded)
           /\ rules' = AfterEdit(rules, table1, ok, reloaded)
           /\ lastOp' = [op |-> "deleteRule", id |-> rulesTable[k].id]
  /\ UNCHANGED <<numberVars, hookVars, dispatchVars, clockVars, tasksTable, tasks, polls, manual, dialogVars>>

\* ---------------------------------------------------------------- task numbering
\* get_next_task_number(p_user_id): COALESCE(MAX(task_number), 0) + 1 over the tasks
\* of the user's boards that the statement can see, the committed ones.
get_next_task_number(rows, p_user_id) ==
  LET mine == {r.task_number : r \in {x \in BagToSet(rows) : x.user_id = p_user_id}}
  IN  (IF mine = {} THEN 0 ELSE CHOOSE n \in mine : \A m \in mine : m <= n) + 1

\* An INSERT into tasks on a board of the user: the BEFORE INSERT trigger
\* assign_task_number sets NEW.task_number; the row is not visible to others yet.
BeginInsert ==
  /\ BagCardinality(numbered) + BagCardinality(inserting) < MaxInserts
  /\ \E u \in Users :
       LET row == [user_id |-> u, task_number |-> get_next_task_number(numbered, u)]
       IN  /\ inserting' = inserting (+) SetToBag({row})
           /\ lastOp' = [op |-> "beginInsert", row |-> row]
  /\ UNCHANGED <<numbered, hookVars, dispatchVars, clockVars, storeVars, boardVars>>

\* The insert commits and its row becomes visible, or it fails and leaves nothing.
EndInsert ==
  /\ \E row \in BagToSet(inserting), ok \in BOOLEAN :
       /\ inserting' = inserting (-) SetToBag({row})
       /\ numbered' = IF ok THEN numbered (+) SetToBag({row}) ELSE numbered
       /\ lastOp' = [op |-> "endInsert", row |-> row, ok |-> ok]
  /\ UNCHANGED <<hookVars, dispatchVars, clockVars, storeVars, boardVars>>

\* ---------------------------------------------------------------- dispatcher actions
\* The cron job invokes the function: the due-task query, which may fail (500) or
\* find nothing to send (the invocation then returns at once). An invocation keeps
\* the list it selected and, per task, the attempts it has started.
Invoke ==
  /\ BagCardinality(runs) < MaxInvocations
  /\ \E ok \in BOOLEAN :
       LET due == DueNotifications(tasksTable, now)
           selected == {due[k] : k \in 1..Len(due)}
       IN  /\ runs' = IF ok /\ Len(due) > 0
                      THEN runs (+) SetToBag({[pc |-> "profile", queue |-> due,
                                               selected |-> selected,
                                               attempts |-> [t \in TaskIds |-> 0]]})
                      ELSE runs
           /\ lastOp' = [op |-> "invoke", ok |-> ok,
                         selected |-> IF ok THEN selected ELSE {}]
  /\ UNCHANGED <<numberVars, hookVars, clockVars, storeVars, boardVars, profiles, posts>>

\* The profile lookup for the task at hand; a failed lookup leaves profile null.
Lookup ==
  /\ \E run \in BagToSet(runs), found \in BOOLEAN :
       LET task == Head(run.queue)
           url == IF found THEN profiles[TaskOwner(task)].notification_url ELSE NULL
       IN  /\ run.pc = "profile"
           /\ url # NULL => posts[task] < MaxPosts
           /\ runs' = (runs (-) SetToBag({run}))
                        (+) SetToBag({[run EXCEPT
                                         !.pc = IF url = NULL THEN "markNoUrl" ELSE "fetch",
                                         !.attempts[task] = @ + 1]})
           /\ lastOp' = [op |-> "lookup", task |-> task, found |-> found]
  /\ UNCHANGED <<numberVars, hookVars, clockVars, storeVars, boardVars, profiles, posts>>

\* A no-URL branch that moves on to the next task without marking this one.
MarkNoUrlSkips ==
  /\ \E run \in BagToSet(runs) :
       LET task == Head(run.queue)
       IN  /\ run.pc = "markNoUrl"
           /\ runs' = (runs (-) SetToBag({run})) (+) Continue(run)
           /\ lastOp' = [op |-> "handled", task |-> task, outcome |-> "noUrl",
                         marked |-> "none", rest |-> Tail(run.queue),
                         selected |-> run.selected, attempts |-> run.attempts]
  /\ UNCHANGED <<numberVars, hookVars, clockVars, storeVars, boardVars, profiles, posts>>

\* No notification_url: the update that marks the task as sent (its result is not
\* looked at), then the next task.
MarkNoUrl ==
  /\ \E run \in BagToSet(runs), ok \in BOOLEAN :
       LET task == Head(run.queue)
       IN  /\ run.pc = "markNoUrl"
           /\ tasksTable' = IF ok
                            THEN [tasksTable EXCEPT ![task].notification_sent = TRUE]
                            ELSE tasksTable
           /\ runs' = (runs (-) SetToBag({run})) (+) Continue(run)
           /\ lastOp' = [op |-> "handled", task |-> task, outcome |-> "noUrl",
                         marked |-> IF ok THEN "ok" ELSE "failed",
                         rest |-> Tail(run.queue),
                         selected |-> run.selected, attempts |-> run.attempts]
  /\ UNCHANGED <<numberVars, hookVars, clockVars, rulesTable, boardVars, profiles, posts>>

\* The awaited fetch: the webhook answers with some status, or the request throws
\* and the catch block logs it.
Fetch ==
  /\ \E run \in BagToSet(runs), outcome \in FetchOutcomes :
       LET task == Head(run.queue)
       IN  /\ run.pc = "fetch"
           /\ posts' = IF outcome # "throw" THEN [posts EXCEPT ![task] = @ + 1] ELSE posts
           /\ IF MarksSent(outcome)
              THEN /\ runs' = (runs (-) SetToBag({run}))
                                (+) SetToBag({[pc |-> "mark", queue |-> run.queue,
                                               selected |-> run.selected,
                                               attempts |-> run.attempts,
                                               outcome |-> outcome]})
                   /\ lastOp' = [op |-> "fetch", task |-> task, outcome |-> outcome]
              ELSE /\ runs' = (runs (-) SetToBag({run})) (+) Continue(run)
                   /\ lastOp' = [op |-> "handled", task |-> task,
                                 outcome |-> outcome, marked |-> "none",
                                 rest |-> Tail(run.queue),
                                 selected |-> run.selected, attempts |-> run.attempts]
  /\ UNCHANGED <<numberVars, hookVars, clockVars, storeVars, boardVars, profiles>>

\* The update that marks the notification as sent (its result is not looked at),
\* sentCount++, then the next task.
Mark ==
  /\ \E run \in BagToSet(runs), ok \in BOOLEAN :
       LET task == Head(run.queue)
       IN  /\ run.pc = "mark"
           /\ tasksTable' = IF ok
                            THEN [tasksTable EXCEPT ![task].notification_sent = TRUE]
                            ELSE tasksTable
           /\ runs' = (runs (-) SetToBag({run})) (+) Continue(run)
           /\ lastOp' = [op |-> "handled", task |-> task, outcome |-> run.outcome,
                         marked |-> IF ok THEN "ok" ELSE "failed",
                         rest |-> Tail(run.queue),
                         selected |-> run.selected, attempts |-> run.attempts]
  /\ UNCHANGED <<numberVars, hookVars, clockVars, rulesTable, boardVars, profiles, posts>>

\* notification_sent as updateTask writes it: false when the dialog's notificationAt
\* is set, left out of the update (undefined) when it is empty.
SentAfterEdit(notificationAt, sent) == IF notificationAt # NULL THEN FALSE ELSE sent

\* TaskEditDialog.updateTask, saved with notificationAt as the dialog was opened with
\* (task.notification_at): title or description edited, the reminder left alone.
UpdateTask ==
  /\ \E task \in TaskIds, ok \in BOOLEAN :
       LET notificationAt == tasksTable[task].notification_at
       IN  /\ tasksTable' =
                IF ok
                THEN [tasksTable EXCEPT
                        ![task].notification_at = notificationAt,
                        ![task].notification_sent = SentAfterEdit(notificationAt, @)]
                ELSE tasksTable
           /\ lastOp' = [op |-> "updateTask", task |-> task, ok |-> ok,
                         before |-> tasksTable[task], posted |-> posts[task]]
  /\ UNCHANGED <<numberVars, hookVars, clockVars, rulesTable, boardVars, dispatchVars>>

\* The automation engine: clock, loads, poll cycles.
Next ==
  \/ Mount
  \/ Tick
  \/ LoadRules
  \/ TimerTick
  \/ LoadTasks
  \/ UpdateLands

Spec == Init /\ [][Next]_vars

\* A board with an overdue task in column A and a second task, overdue or due on
\* the last day, beside or after it; one rule, or a chain of two.
InitLive ==
  /\ now = StartNow
  /\ tz = 0
  /\ \E c2 \in {"A", "B"}, d2 \in {toISODate(0), toISODate(MaxNow \div TicksPerDay)} :
       tasksTable = TwoTasks("A", toISODate(0), c2, d2)
  /\ rulesTable \in { <<Rule("r1", "A", "B", TRUE)>>,
                      <<Rule("r1", "A", "B", TRUE), Rule("r2", "B", "C", TRUE)>> }
  /\ Unmounted
  /\ NotDeployed

\* The engine with its scheduling: the interval fires as long as the page is open,
\* and an update that was sent is answered, by a result or by an error.
SpecLive == InitLive /\ [][Next]_vars /\ WF_vars(TimerTick) /\ WF_vars(UpdateLands)

\* The Board page: the automation engine and the user's drops.
NextBoard ==
  \/ Mount
  \/ LoadRules
  \/ TimerTick
  \/ LoadTasks
  \/ UpdateLands
  \/ HandleDragEnd
  \/ SelectDate
  \/ HandleConfirm
  \/ HandleCancel
  \/ ManualLands

SpecBoard == InitBoard /\ [][NextBoard]_vars

\* The dialog variant with the Skip & Move exit, on a board with an overdue task.
InitSkip ==
  /\ now = StartNow
  /\ tz = 0
  /\ tasksTable = TwoTasks("A", toISODate(0), "B", NULL)
  /\ rulesTable \in { <<Rule("r1", "A", "B", TRUE)>>,
                      <<Rule("r1", "A", "B", TRUE), Rule("r2", "B", "C", TRUE)>> }
  /\ Unmounted
  /\ NotDeployed

NextSkip ==
  \/ Mount
  \/ LoadRules
  \/ LoadTasks
  \/ UpdateLands
  \/ HandleDragEnd
  \/ SelectDate
  \/ HandleConfirm
  \/ HandleCancel
  \/ HandleSkip
  \/ ManualLands

SpecSkip == InitSkip /\ [][NextSkip]_vars

\* Rule authoring next to the running evaluator: two overdue tasks, rules edited
\* from this session and from others.
InitRules ==
  /\ now = StartNow
  /\ tz = 0
  /\ tasksTable = TwoTasks("A", toISODate(0), "B", toISODate(0))
  /\ rulesTable \in { <<>>, <<Rule("r1", "A", "B", TRUE)>> }
  /\ Unmounted
  /\ NotDeployed

NextRules ==
  \/ Mount
  \/ AddRule
  \/ ToggleRule
  \/ DeleteRule
  \/ LoadRules
  \/ LoadTasks
  \/ TimerTick

SpecRules == InitRules /\ [][NextRules]_vars

\* The life of the polling effect: the page mounts, switches board, reloads its
\* list and unmounts, on a board with overdue tasks and a chain of two rules.
InitTimer ==
  /\ now = StartNow
  /\ tz = 0
  /\ \E c2 \in {"A", "B"} : tasksTable = TwoTasks("A", toISODate(0), c2, toISODate(0))
  /\ rulesTable = <<Rule("r1", "A", "B", TRUE), Rule("r2", "B", "C", TRUE)>>
  /\ Unmounted
  /\ NotDeployed

NextTimer ==
  \/ Mount
  \/ SwitchBoard
  \/ Unmount
  \/ LoadRules
  \/ LoadTasks
  \/ TimerTick
  \/ UpdateLands

SpecTimer == InitTimer /\ [][NextTimer]_vars

\* The page's first load of the task list, started by the mount effect.
FirstLoad ==
  /\ tasks = <<>>
  /\ LoadTasks

\* The board left to itself after it has been opened: no drag, no edit, no clock
\* step; every update that was sent is answered.
ChainRules == <<Rule("r1", "A", "B", TRUE), Rule("r2", "B", "C", TRUE)>>
CycleRules == <<Rule("r1", "A", "B", TRUE), Rule("r2", "B", "A", TRUE)>>

InitQuiet ==
  /\ now = StartNow
  /\ tz = 0
  /\ \E c1, c2 \in {"A", "B"}, d2 \in {toISODate(0), toISODate(Today0 + 1)} :
       tasksTable = TwoTasks(c1, toISODate(0), c2, d2)
  /\ rulesTable \in {ChainRules, CycleRules}
  /\ Unmounted
  /\ NotDeployed

NextQuiet ==
  \/ Mount
  \/ LoadRules
  \/ FirstLoad
  \/ UpdateLands

SpecQuiet == InitQuiet /\ [][NextQuiet]_vars /\ WF_vars(UpdateLands)

\* Task creation: inserts for the boards of two users, overlapping or not.
InitNumber ==
  /\ now = StartNow
  /\ tz = 0
  /\ tasksTable = TwoTasks("A", NULL, "B", NULL)
  /\ rulesTable = <<>>
  /\ Unmounted
  /\ NotDeployed

NextNumber ==
  \/ BeginInsert
  \/ EndInsert

SpecNumber == InitNumber /\ [][NextNumber]_vars

\* The notification dispatcher: overlapping invocations of the function.
NextDispatch ==
  \/ Invoke
  \/ Lookup
  \/ MarkNoUrl
  \/ Fetch
  \/ Mark

SpecDispatch == InitDispatch /\ [][NextDispatch]_vars

\* The dispatcher beside a user who edits tasks in the task dialog: one task with a
\* reminder that is due, one without a reminder; both owners have a webhook URL.
InitEdit ==
  /\ now = StartNow
  /\ tz = 0
  /\ \E sent2 \in BOOLEAN :
       tasksTable = [t \in TaskIds |->
                       IF t = IdOrder[1] THEN NotifyRow(<<StartNow>>, FALSE)
                       ELSE [NotifyRow(NULL, sent2) EXCEPT !.position = 1]]
  /\ rulesTable = <<>>
  /\ Unmounted
  /\ profiles = [u \in Users |-> [notification_url |-> <<"hook">>]]
  /\ runs = EmptyBag
  /\ posts = [t \in TaskIds |-> 0]
  /\ NoInserts

NextEdit ==
  \/ Invoke
  \/ Lookup
  \/ MarkNoUrl
  \/ Fetch
  \/ Mark
  \/ UpdateTask

SpecEdit == InitEdit /\ [][NextEdit]_vars
\* ---------------------------------------------------------------- properties
\* The last operation ran checkAndMoveOverdueTasks past its early return.
Checked ==
  /\ lastOp.op \in {"timer", "loadTasks", "pollDone", "moveDone"}
  /\ lastOp.check.ran

\* The UTC calendar day of the clock.
Today == now \div TicksPerDay

\* C1 (due detection): whenever checkAndMoveOverdueTasks has run on the task list,
\* a task is in its overdue set if and only if the task has a due date and that
\* date's calendar day is not after today's; so a task due today is in, and a task
\* due tomorrow or without a due date is out.
C1_DueDetection ==
  Checked =>
    \A i \in 1..Len(tasks) :
      (tasks[i].id \in lastOp.check.overdue)
        <=> (tasks[i].due_date # NULL /\ DayOf(tasks[i].due_date) <= Today)

\* A run that saw a task due today (taken) next to a task due tomorrow (left).
C1_Witness ==
  /\ Checked
  /\ \E i, j \in 1..Len(tasks) :
       /\ tasks[i].due_date = toISODate(Today)
       /\ tasks[i].id \in lastOp.check.overdue
       /\ tasks[j].due_date = toISODate(Today + 1)
       /\ tasks[j].id \notin lastOp.check.overdue

\* The rules of the loaded list whose source is the column, by index.
Matching(column) == {k \in 1..Len(rulesRef) : rulesRef[k].source_column_id = column}

\* C2 (rule matching): whenever checkAndMoveOverdueTasks has run, every overdue
\* task whose column is the source of some loaded rule is paired exactly once, with
\* the target of the lowest-indexed such rule; an overdue task whose column matches
\* no rule and a task that is not overdue are paired with nothing; the updates
\* issued are exactly these pairs; and evaluating the same lists again gives the
\* same pairs.
C2_FirstMatch ==
  Checked =>
    LET moves == lastOp.check.tasksToMove
    IN  /\ \A i \in 1..Len(tasks) :
             LET t == tasks[i]
                 mine == {m \in 1..Len(moves) : moves[m].taskId = t.id}
             IN  IF t.id \in lastOp.check.overdue /\ Matching(t.column_id) # {}
                 THEN /\ Cardinality(mine) = 1
                      /\ \A m \in mine, k \in Matching(t.column_id) :
                           (\A j \in Matching(t.column_id) : k <= j)
                             => moves[m].targetColumnId = rulesRef[k].target_column_id
                 ELSE mine = {}
        /\ \A m \in 1..Len(moves) : moves[m].taskId \in TaskIdsOf(tasks)
        /\ polls = IF moves = <<>> THEN lastOp.cycles
                   ELSE lastOp.cycles (+) SetToBag({NewPoll(moves)})
        /\ tasksToMove(tasks, rulesRef, now) = moves

\* A run with two rules on the overdue task's column, whose targets differ, next to
\* an overdue task in a column no rule names.
C2_Witness ==
  /\ Checked
  /\ \E i, j \in 1..Len(tasks) :
       /\ tasks[i].id \in lastOp.check.overdue
       /\ Cardinality(Matching(tasks[i].column_id)) = 2
       /\ \E a, b \in Matching(tasks[i].column_id) :
            rulesRef[a].target_column_id # rulesRef[b].target_column_id
       /\ tasks[j].id \in lastOp.check.overdue
       /\ Matching(tasks[j].column_id) = {}

\* C3 (idempotence of re-poll): when a poll cycle has moved its tasks and the
\* reloaded list is evaluated again, the second run moves none of the tasks the
\* first run moved.
C3_RepollIdempotent ==
  lastOp.op = "pollDone" =>
    \A m \in 1..Len(lastOp.check.tasksToMove) :
      lastOp.check.tasksToMove[m].taskId \notin lastOp.moved

\* The statuses a webhook can answer with.
Statuses == {"2xx", "4xx", "5xx"}

\* The dispatcher has finished with a task whose webhook answered.
Answered == lastOp.op = "handled" /\ lastOp.outcome \in Statuses

C5_MarkedWhenFetchThrows ==
  (lastOp.op = "handled" /\ lastOp.outcome = "throw") =>
    tasksTable[lastOp.task].notification_sent = TRUE

\* C6 (at-most-once delivery): over any interleaving of invocations, the webhook
\* answers at most one POST per task (each task keeps its notification_at value).
C6_AtMostOncePost ==
  \A t \in TaskIds : posts[t] <= 1

\* The dragged task, as the Board had it loaded, is strictly overdue.
DraggedOverdue ==
  LET t == TaskById(tasks, lastOp.taskId)
  IN  t.due_date # NULL /\ DayOf(t.due_date) < Today

\* The drop was held back: Pending Move stored, dialog open, nothing sent to the Store.
Held ==
  /\ lastOp.held
  /\ dateChangeDialogOpen
  /\ pendingMove = [taskId |-> lastOp.taskId, targetColumnId |-> lastOp.to,
                    targetPosition |-> lastOp.position]
  /\ manual = lastOp.inFlight

\* C7 as stated (override trigger): a strictly overdue task dragged from its column
\* into another one, with a loaded rule whose source is the task's column and whose
\* target is the drop's column, is held back for the date-change dialog.
C7_TriggerOnRuleTarget ==
  ( /\ lastOp.op = "dragEnd"
    /\ DraggedOverdue
    /\ lastOp.from # lastOp.to
    /\ \E k \in 1..Len(rules) : /\ rules[k].source_column_id = lastOp.from
                                /\ rules[k].target_column_id = lastOp.to )
  => Held

\* C7, amended: a strictly overdue task dragged from its column into another one is
\* held back for the date-change dialog (Pending Move stored, dialog open, no update
\* issued) exactly when a loaded rule has the drop's column as its source; without
\* such a rule the move is issued at once. Cancel then leaves the task's column in
\* the Store as it was.
C7_TriggerOnRuleSource ==
  /\ (lastOp.op = "dragEnd" /\ DraggedOverdue /\ lastOp.from # lastOp.to) =>
       IF \E k \in 1..Len(rules) : rules[k].source_column_id = lastOp.to
       THEN Held
       ELSE /\ ~lastOp.held
            /\ manual = lastOp.inFlight
                          (+) SetToBag({MoveRequest(lastOp.taskId, lastOp.to,
                                                    lastOp.position, NULL, FALSE)})
  /\ lastOp.op = "cancel" =>
       tasksTable[lastOp.pending.taskId].column_id
         = lastOp.before[lastOp.pending.taskId].column_id

\* The overdue task of column A was dropped on column B, the source of a rule, the
\* dialog was cancelled, and the task is still in A.
C7_Witness ==
  /\ lastOp.op = "cancel"
  /\ lastOp.pending # Undefined
  /\ lastOp.pending.targetColumnId = "B"
  /\ tasksTable[lastOp.pending.taskId].column_id = "A"
  /\ \E k \in 1..Len(rules) : rules[k].source_column_id = "B"

\* C8 (Cancel is a pure discard): Cancel, from a state with a Pending Move, leaves
\* the tasks table and the updates in flight exactly as they were, clears the
\* Pending Move and closes the dialog.
C8_CancelDiscards ==
  lastOp.op = "cancel" =>
    /\ lastOp.pending # Undefined
    /\ tasksTable = lastOp.before
    /\ manual = lastOp.inFlight
    /\ pendingMove = Undefined
    /\ ~dateChangeDialogOpen

\* Cancel taken with no update in flight: the Store holds what it held.
C8_Witness ==
  /\ lastOp.op = "cancel"
  /\ lastOp.inFlight = EmptyBag
  /\ manual = EmptyBag
  /\ pendingMove = Undefined
  /\ tasksTable = lastOp.before

\* C9 (override flow exits): after Cancel and after a confirmed move has returned,
\* whether its update succeeded or failed, the Pending Move is null; and at most one
\* Store update is issued for a Pending Move.
C9_ExitsClearAndCommitOnce ==
  /\ (lastOp.op = "cancel" \/ (lastOp.op = "moveDone" /\ lastOp.request.viaDialog))
       => pendingMove = Undefined
  /\ commits <= 1

\* C10 (confirm date bound): the due_date Confirm sends to the Store is not earlier
\* than today as the automation engine computes it.
C10_ConfirmDateNotBeforeToday ==
  lastOp.op = "confirm" => StrLeq(lastOp.today, lastOp.dateStr)

\* C11 (confirm with new date): confirming a date for the Pending Move issues exactly
\* one Store update, for the pending task, that sets column_id and position to the
\* pending target and due_date to the calendar date the user picked.
C11_ConfirmWritesPickedDate ==
  lastOp.op = "confirm" =>
    manual = lastOp.inFlight
               (+) SetToBag({MoveRequest(pendingMove.taskId, pendingMove.targetColumnId,
                                         pendingMove.targetPosition, lastOp.picked, TRUE)})

\* C12 (Skip & Move exit): Skip & Move issues one update for the pending task with
\* the pending column and position and no due date; when that update has returned
\* the Pending Move is null and the dialog closed, and the task's row is the row it
\* was with column_id and position replaced (due_date as before) if the update
\* succeeded, and the row it was if it failed.
C12_SkipKeepsDueDate ==
  /\ lastOp.op = "skip" =>
       manual = lastOp.inFlight
                  (+) SetToBag({MoveRequest(pendingMove.taskId, pendingMove.targetColumnId,
                                            pendingMove.targetPosition, NULL, TRUE)})
  /\ (lastOp.op = "moveDone" /\ lastOp.request.viaDialog /\ lastOp.request.due_date = NULL) =>
       /\ pendingMove = Undefined
       /\ ~dateChangeDialogOpen
       /\ tasksTable[lastOp.request.taskId]
            = IF lastOp.ok
              THEN [lastOp.before EXCEPT !.column_id = lastOp.request.column_id,
                                         !.position = lastOp.request.position]
              ELSE lastOp.before

\* A skipped move has landed: the overdue task is in the pending column with the
\* overdue date it had.
C12_Witness ==
  /\ lastOp.op = "moveDone"
  /\ lastOp.ok
  /\ lastOp.request.viaDialog
  /\ lastOp.request.due_date = NULL
  /\ tasksTable[lastOp.request.taskId].column_id = "B"
  /\ lastOp.before.column_id = "A"
  /\ tasksTable[lastOp.request.taskId].due_date = toISODate(0)
  /\ pendingMove = Undefined

\* The last update of a poll cycle has come back: Promise.all has resolved.
CycleEnded == lastOp.op \in {"pollDone", "pollFailed"}

\* C13 (batch outcome reporting): when the last update of a cycle with a non-empty
\* move list has come back, the success toast is shown and the task list reloaded
\* if and only if no update of the batch failed; after a batch with a failure the
\* list is the list shown before and nothing further is issued.
C13_ToastIffAllSucceeded ==
  CycleEnded =>
    /\ Len(lastOp.moves) > 0
    /\ lastOp.toast <=> (\A i \in 1..Len(lastOp.moves) : i \notin lastOp.failures)
    /\ lastOp.toast => tasks = SelectTasks(tasksTable)
    /\ ~lastOp.toast => (tasks = lastOp.shown /\ polls = lastOp.cycles)

\* A batch of two updates of which one failed: no toast, no reload.
C13_Witness ==
  /\ lastOp.op = "pollFailed"
  /\ Len(lastOp.moves) = 2
  /\ Cardinality(lastOp.failures) = 1
  /\ ~lastOp.toast
  /\ tasks # SelectTasks(tasksTable)

\* An update of a poll cycle has come back.
Landed == lastOp.op \in {"updateLands", "pollDone", "pollFailed"}

\* C14 (no rollback on partial failure): each update of a batch that succeeds leaves
\* the tasks table as it was except for its task's column, now the rule's target;
\* each update that fails leaves the table as it was; and when a batch ends with a
\* failure no further write is issued, so what was applied stays applied.
C14_NoRollback ==
  /\ Landed =>
       tasksTable = IF lastOp.ok
                    THEN [lastOp.before EXCEPT
                            ![lastOp.move.taskId].column_id = lastOp.move.targetColumnId]
                    ELSE lastOp.before
  /\ lastOp.op = "pollFailed" => polls = lastOp.cycles

\* A batch of two ended with its second update failing: the first task sits in its
\* rule's target column, the second where it was.
C14_Witness ==
  /\ lastOp.op = "pollFailed"
  /\ Len(lastOp.moves) = 2
  /\ ~lastOp.ok
  /\ \E i, j \in 1..2 :
       /\ i \notin lastOp.failures
       /\ j \in lastOp.failures
       /\ tasksTable[lastOp.moves[i].taskId].column_id = lastOp.moves[i].targetColumnId
       /\ tasksTable[lastOp.moves[j].taskId].column_id # lastOp.moves[j].targetColumnId
       /\ tasksTable[lastOp.moves[j].taskId] = lastOp.before[lastOp.moves[j].taskId]

\* The Store holds an enabled rule with this id, source and target.
EnabledInStore(r) ==
  \E j \in 1..Len(rulesTable) :
    /\ rulesTable[j].id = r.id
    /\ rulesTable[j].enabled
    /\ rulesTable[j].source_column_id = r.source_column_id
    /\ rulesTable[j].target_column_id = r.target_column_id

\* C15 (disabled rules never act): every rule in the evaluator's cached list is
\* enabled in the Store, and every move a check issues is the move of a rule that is
\* enabled in the Store at that time.
C15_DisabledRulesNeverAct ==
  /\ \A k \in 1..Len(rulesRef) : EnabledInStore(rulesRef[k])
  /\ Checked =>
       \A m \in 1..Len(lastOp.check.tasksToMove) :
         \E j \in 1..Len(rulesTable) :
           /\ rulesTable[j].enabled
           /\ rulesTable[j].source_column_id
                = TaskById(tasks, lastOp.check.tasksToMove[m].taskId).column_id
           /\ rulesTable[j].target_column_id = lastOp.check.tasksToMove[m].targetColumnId

\* A rule is well-formed: both columns given, and different.
WellFormed(r) ==
  /\ r.source_column_id \in Columns
  /\ r.target_column_id \in Columns
  /\ r.source_column_id # r.target_column_id

\* C16 (rule well-formedness): over any sequence of add, toggle and delete, every
\* rule of the Store and every rule loaded by the evaluator has both columns and a
\* source different from its target; an addRule request with source = target, or
\* with a column missing, leaves the rules table as it was; an insert appends one
\* enabled rule with the requested columns.
C16_RulesWellFormed ==
  /\ \A k \in 1..Len(rulesTable) : WellFormed(rulesTable[k])
  /\ \A k \in 1..Len(rulesRef) : WellFormed(rulesRef[k])
  /\ \A k \in 1..Len(rules) : WellFormed(rules[k])
  /\ lastOp.op = "addRule" =>
       /\ (lastOp.source = lastOp.target \/ lastOp.source = "" \/ lastOp.target = "")
            => rulesTable = lastOp.before
       /\ rulesTable # lastOp.before =>
            /\ Len(rulesTable) = Len(lastOp.before) + 1
            /\ SubSeq(rulesTable, 1, Len(lastOp.before)) = lastOp.before
            /\ rulesTable[Len(rulesTable)].source_column_id = lastOp.source
            /\ rulesTable[Len(rulesTable)].target_column_id = lastOp.target
            /\ rulesTable[Len(rulesTable)].enabled
            /\ \A k \in 1..Len(lastOp.before) :
                 lastOp.before[k].id # rulesTable[Len(rulesTable)].id

\* A request with source = target = A was turned down next to a rule that was
\* inserted earlier and has reached the evaluator.
C16_Witness ==
  /\ lastOp.op = "addRule"
  /\ lastOp.source = "A"
  /\ lastOp.target = "A"
  /\ rulesTable = lastOp.before
  /\ Len(rulesTable) > 0
  /\ Len(rulesRef) > 0

\* The dispatcher has finished with a task whose owner has no webhook URL.
HandledNoUrl ==
  /\ lastOp.op = "handled"
  /\ lastOp.outcome = "noUrl"
  /\ profiles[TaskOwner(lastOp.task)].notification_url = NULL

DueNow ==
  {t \in TaskIds : /\ tasksTable[t].notification_sent = FALSE
                   /\ tasksTable[t].notification_at # NULL
                   /\ tasksTable[t].notification_at[1] <= now}

\* The tasks an invocation still has in its list.
Queued(run) == {run.queue[k] : k \in 1..Len(run.queue)}

\* An invocation under way has started one attempt for each task it is done with,
\* one for the task at hand once its profile lookup has run, and none for the tasks
\* still waiting or never selected.
OneAttemptEach(run) ==
  /\ Queued(run) \subseteq run.selected
  /\ \A t \in TaskIds :
       run.attempts[t] = IF t \in run.selected \ Queued(run) THEN 1
                         ELSE IF t = Head(run.queue) /\ run.pc # "profile" THEN 1
                         ELSE 0

\* The invocation that has just started works through exactly the tasks due now.
StartsOnDue ==
  /\ lastOp.selected = DueNow
  /\ DueNow # {} =>
       \E run \in BagToSet(runs) :
         /\ run.pc = "profile" /\ run.selected = DueNow /\ Queued(run) = DueNow
         /\ \A t \in TaskIds : run.attempts[t] = 0

\* The invocation that has just handled its last task made one attempt for each
\* task it selected and none for any other.
EndsWithOneEach ==
  lastOp.op = "handled" /\ lastOp.rest = <<>> =>
    \A t \in TaskIds :
      lastOp.attempts[t] = IF t \in lastOp.selected THEN 1 ELSE 0

\* A step that POSTs for a task or changes its row belongs to the one attempt of an
\* invocation that selected the task.
OnlySelectedTouched ==
  \A t \in TaskIds :
    (posts'[t] # posts[t] \/ tasksTable'[t] # tasksTable[t]) =>
      \E run \in BagToSet(runs) :
        /\ t = Head(run.queue) /\ t \in run.selected /\ run.attempts[t] = 1

StillDueInSource(task) ==
  /\ task.due_date # NULL
  /\ StrLeq(task.due_date, toISOString(now))
  /\ \E k \in 1..Len(rulesRef) : rulesRef[k].source_column_id = task.column_id

\* The cycle just started holds, not yet answered, a move of the task to the target
\* of a loaded rule for its column.
Reissued(task) ==
  \E poll \in BagToSet(polls) :
    /\ CopiesIn(poll, polls) = CopiesIn(poll, lastOp.cycles) + 1
    /\ poll.pending = 1..Len(poll.moves) /\ poll.failures = {}
    /\ \E m \in 1..Len(poll.moves), k \in 1..Len(rulesRef) :
         /\ poll.moves[m].taskId = task.id
         /\ rulesRef[k].source_column_id = task.column_id
         /\ poll.moves[m].targetColumnId = rulesRef[k].target_column_id

\* C19 (failure isolation between cycles): when a cycle has ended with some or all of
\* its updates failed, the interval callback can still run; and when it runs next, it
\* goes through the task list again and issues a move for every task of the list that
\* is still due and still in a rule's source column, the failed ones among them.
C19_NextCycleAfterFailure ==
  /\ lastOp.op = "pollFailed" => ENABLED TimerTick
  /\ lastOp.op = "timer" /\ lastOp.retry # {} =>
       /\ lastOp.check.ran
       /\ \A i \in 1..Len(tasks) : StillDueInSource(tasks[i]) => Reissued(tasks[i])

\* A cycle of two updates ended with one failed, the other applied; at the next tick
\* both tasks, still due and still in the source column in the list, are moved again.
C19_Witness ==
  /\ lastOp.op = "timer"
  /\ Cardinality(lastOp.retry) = 1
  /\ Len(lastOp.check.tasksToMove) = 2
  /\ \E i \in 1..Len(tasks) :
       /\ tasks[i].id \in lastOp.retry
       /\ StillDueInSource(tasks[i]) /\ Reissued(tasks[i])
       /\ tasksTable[tasks[i].id].column_id = tasks[i].column_id

\* ---------------------------------------------------------------- C20
\* The task is due, sits in the source column of a loaded rule, and the hook's task
\* list has it, as the Store has it.
DueInSourceAndListed(t) ==
  /\ tasksTable[t].due_date # NULL
  /\ StrLeq(tasksTable[t].due_date, toISOString(now))
  /\ \E k \in 1..Len(rulesRef) :
       /\ rulesRef[k].enabled
       /\ rulesRef[k].source_column_id = tasksTable[t].column_id
  /\ \E i \in 1..Len(tasks) :
       /\ tasks[i].id = t
       /\ tasks[i].column_id = tasksTable[t].column_id
       /\ tasks[i].due_date = tasksTable[t].due_date

\* An update that moves the task is on its way to the Store.
MoveIssued(t) ==
  \E poll \in BagToSet(polls) : \E m \in poll.pending : poll.moves[m].taskId = t

\* C20 (detection latency): a tick of the interval leaves no task of the hook's list
\* that is due and in the source column of a loaded rule without a move in the cycle
\* it issues; and with the interval firing and updates being answered, every task
\* that is due, in the source column of a loaded enabled rule and in the hook's list
\* is eventually issued a move, also when the check on mount ran before the rules
\* were loaded.
C20_MoveIssuedByNextTick ==
  /\ [](lastOp.op = "timer" =>
          \A i \in 1..Len(tasks) : StillDueInSource(tasks[i]) => Reissued(tasks[i]))
  /\ \A t \in TaskIds : DueInSourceAndListed(t) ~> MoveIssued(t)

\* The check on mount returned early because the rules were not loaded yet; they
\* have been loaded since, and the tick that follows issues the move of a due task.
C20_Witness ==
  /\ lastOp.op = "timer"
  /\ lastOp.lateRules
  /\ lastOp.cycles = EmptyBag
  /\ \E t \in TaskIds : DueInSourceAndListed(t) /\ MoveIssued(t)

\* ---------------------------------------------------------------- C21
\* No task id appears twice in the list of moves.
DistinctTasks(moves) ==
  \A i, j \in 1..Len(moves) : moves[i].taskId = moves[j].taskId => i = j

\* C21 (at most one move per task per evaluation): the tasksToMove list of every run
\* of checkAndMoveOverdueTasks names no task twice, whatever the loaded rules (several
\* may share a source column), and so does the batch of every cycle in flight.
C21_OneMovePerTask ==
  /\ Checked => DistinctTasks(lastOp.check.tasksToMove)
  /\ \A poll \in BagToSet(polls) : DistinctTasks(poll.moves)

\* A run with two loaded rules on column A and two overdue tasks in A: two moves,
\* one for each task.
C21_Witness ==
  /\ Checked
  /\ Len(lastOp.check.tasksToMove) = 2
  /\ \E a, b \in 1..Len(rulesRef) :
       a # b /\ rulesRef[a].source_column_id = rulesRef[b].source_column_id
  /\ \A i \in 1..Len(tasks) :
       /\ tasks[i].id \in lastOp.check.overdue
       /\ Cardinality(Matching(tasks[i].column_id)) = 2

\* ---------------------------------------------------------------- C22
\* The four conditions of the interception, read off the dragged task, the drop and
\* the loaded rules.
MustIntercept ==
  LET t == TaskById(tasks, lastOp.taskId)
  IN  /\ t.due_date # NULL
      /\ lastOp.to # t.column_id
      /\ \E k \in 1..Len(rules) : rules[k].enabled /\ rules[k].source_column_id = lastOp.to
      /\ DayOf(t.due_date) < Today

\* The drop was committed at once: moveTask's update, without a due date, is on its
\* way and no dialog was opened.
CommittedAtOnce ==
  /\ ~lastOp.held
  /\ manual = lastOp.inFlight
                (+) SetToBag({MoveRequest(lastOp.taskId, lastOp.to, lastOp.position,
                                          NULL, FALSE)})
  /\ ~(pendingMove # Undefined /\ dateChangeDialogOpen)

\* C22 (interception condition): a task drop is held back (Pending Move stored,
\* dialog opened, no update issued) if and only if the task has a due date, the
\* drop's column differs from the task's, a loaded enabled rule has the drop's column
\* as its source, and the due date is strictly before today; every other drop is
\* committed at once, and when its update lands the task's due_date is as before.
C22_InterceptIff ==
  /\ lastOp.op = "dragEnd" => IF MustIntercept THEN Held ELSE CommittedAtOnce
  /\ lastOp.op = "moveDone" /\ ~lastOp.request.viaDialog =>
       tasksTable[lastOp.request.taskId].due_date = lastOp.before.due_date

\* A task due today dropped from A on B, the source column of a loaded rule: not
\* held back, its move is on the way.
C22_Witness ==
  /\ lastOp.op = "dragEnd"
  /\ TaskById(tasks, lastOp.taskId).due_date = toISODate(Today)
  /\ lastOp.from = "A" /\ lastOp.to = "B"
  /\ \E k \in 1..Len(rules) : rules[k].source_column_id = "B"
  /\ CommittedAtOnce

\* ---------------------------------------------------------------- C23
\* C23 (manual/automatic race): every update of a poll cycle that the Store accepts
\* sets the task's column to the rule's target whatever column the task was in, every
\* manual move the Store accepts sets the task's column to the drop's column, and a
\* manual move that lands leaves the cycles in flight in flight; so with both in
\* flight for one task both are applied and the later one decides the column.
C23_LastWriteWins ==
  /\ Landed /\ lastOp.ok =>
       tasksTable[lastOp.move.taskId].column_id = lastOp.move.targetColumnId
  /\ lastOp.op = "moveDone" =>
       /\ lastOp.ok =>
            tasksTable[lastOp.request.taskId].column_id = lastOp.request.column_id
       /\ lastOp.cycles \sqsubseteq polls

\* The automated move to B has landed on a task that a manual move, in flight with
\* it and landed first, had taken out of the rule's source column A into C.
C23_Witness ==
  /\ Landed /\ lastOp.ok
  /\ lastOp.move.targetColumnId = "B"
  /\ lastOp.before[lastOp.move.taskId].column_id = "C"
  /\ tasksTable[lastOp.move.taskId].column_id = "B"

\* ---------------------------------------------------------------- C24
\* The last operation was a run of the polling effect.
EffectRan == lastOp.op \in {"mount", "switchBoard", "loadTasks", "pollDone"}

\* An update of a cycle has come back, whether the page is still there or not.
Answered24 == lastOp.op \in {"updateLands", "pollDone", "pollFailed", "lateResult"}

\* C24 (timer lifecycle): over mounts, board switches, task-list changes and
\* unmounts at most one interval of the hook is armed, exactly one while the page is
\* mounted and none after unmount; each run of the effect makes one immediate check
\* on the list it runs on; and an unmount leaves the updates already issued on their
\* way, to be applied when the Store accepts them.
C24_OneTimerAtATime ==
  /\ intervals <= 1
  /\ mounted <=> intervals = 1
  /\ EffectRan =>
       polls = IF tasksToMove(tasks, rulesRef, now) = <<>> THEN lastOp.cycles
               ELSE lastOp.cycles (+) SetToBag({NewPoll(tasksToMove(tasks, rulesRef, now))})
  /\ lastOp.op = "unmount" => polls = lastOp.cycles /\ tasksTable = lastOp.table
  /\ Answered24 /\ lastOp.ok =>
       tasksTable[lastOp.move.taskId].column_id = lastOp.move.targetColumnId

\* After an unmount no interval is armed, and the update of a cycle issued before it
\* has been applied.
C24_Witness ==
  /\ ~mounted /\ intervals = 0
  /\ lastOp.op = "lateResult" /\ lastOp.ok
  /\ lastOp.before[lastOp.move.taskId].column_id # lastOp.move.targetColumnId
  /\ tasksTable[lastOp.move.taskId].column_id = lastOp.move.targetColumnId

\* ---------------------------------------------------------------- C25
\* C25 (task numbering under concurrency): no two committed tasks of one user have
\* the same task_number.
C25_TaskNumbersDistinct ==
  \A row \in BagToSet(numbered) : CopiesIn(row, numbered) = 1

\* ---------------------------------------------------------------- C26
\* C26 (quiescence of automation): on a board left to itself, with any rule set that
\* rule creation allows, the cycles of move, reload and re-check come to an end:
\* from some point on no cycle is in flight.
C26_AutomationQuiesces == <>[](polls = EmptyBag)

\* The same for rule sets without a cycle.
ChainsQuiesce == (rulesTable = ChainRules) => <>[](polls = EmptyBag)

\* ---------------------------------------------------------------- C27
\* C27 (override resolution sticks): when the move confirmed in the date dialog, with
\* a date the picker allowed, has been written, the check that the reload runs does
\* not move that task out of the column it was dropped into.
C27_ResolutionSticks ==
  (lastOp.op = "moveDone" /\ lastOp.ok /\ lastOp.request.viaDialog /\ mounted) =>
    \A i \in 1..Len(lastOp.check.tasksToMove) :
      lastOp.check.tasksToMove[i].taskId # lastOp.request.taskId

\* ---------------------------------------------------------------- C28
\* C28 (no re-arming by unrelated edits): a task that the dispatcher has posted for
\* and marked as sent is still marked as sent after it was saved from the edit
\* dialog with notification_at unchanged, so the dispatcher does not select it again.
C28_EditKeepsSent ==
  (lastOp.op = "updateTask" /\ lastOp.posted > 0 /\ lastOp.before.notification_sent) =>
    /\ tasksTable[lastOp.task].notification_sent
    /\ \A k \in 1..Len(DueNotifications(tasksTable, now)) :
         DueNotifications(tasksTable, now)[k] # lastOp.task

\* ---------------------------------------------------------------- C29
\* C29 (no silent loss for configured users): the dispatcher marks a task as sent
\* without a POST only if the owner's profile row has no notification_url; a lookup
\* that failed for an owner who has one does not get the task marked.
C29_MarkedUnpostedOnlyWithoutUrl ==
  (lastOp.op = "handled" /\ lastOp.outcome = "noUrl" /\ lastOp.marked = "ok") =>
    profiles[TaskOwner(lastOp.task)].notification_url = NULL

\* ---------------------------------------------------------------- C30
\* A check has just run: on mount, on a new task list, on the interval, after a cycle.
Checked30 == lastOp.op \in {"mount", "loadTasks", "timer", "pollDone"}

\* The task is in the page's list with a due date not after the check's today, in a
\* column that is the source of a cached rule.
DueAndMatching(taskId) ==
  \E i \in 1..Len(tasks) :
    /\ tasks[i].id = taskId
    /\ tasks[i].due_date # NULL
    /\ StrLeq(tasks[i].due_date, lastOp.check.today)
    /\ \E k \in 1..Len(rulesRef) : rulesRef[k].source_column_id = tasks[i].column_id

\* C30 (frame of an automated move): an update of a poll cycle changes nothing but
\* column_id of its own task: due_date, position, notification_at and
\* notification_sent of every task stay as they were, and so does the column of
\* every other task; every move a check issues is for a task of the list that is
\* due and whose column is a cached rule's source; and a check on an empty rule
\* cache or an empty task list issues nothing.
C30_FrameOfAutomatedMove ==
  /\ Landed =>
       \A t \in TaskIds :
         /\ tasksTable[t].due_date = lastOp.before[t].due_date
         /\ tasksTable[t].position = lastOp.before[t].position
         /\ tasksTable[t].notification_at = lastOp.before[t].notification_at
         /\ tasksTable[t].notification_sent = lastOp.before[t].notification_sent
         /\ t # lastOp.move.taskId => tasksTable[t].column_id = lastOp.before[t].column_id
  /\ Checked30 =>
       /\ \A i \in 1..Len(lastOp.check.tasksToMove) :
            DueAndMatching(lastOp.check.tasksToMove[i].taskId)
       /\ (Len(rulesRef) = 0 \/ Len(tasks) = 0) =>
            /\ lastOp.check.tasksToMove = <<>>
            /\ polls = lastOp.cycles
       /\ lastOp.check.tasksToMove = <<>> => polls = lastOp.cycles

\* A cycle's last update has moved its task, which was not at the top of its column,
\* to the rule's target; the other task, with its due date, is as it was; and the
\* check after the reload has issued a move again.
C30_Witness ==
  /\ lastOp.op = "pollDone"
  /\ tasksTable[lastOp.move.taskId].column_id # lastOp.before[lastOp.move.taskId].column_id
  /\ tasksTable[lastOp.move.taskId].position > 0
  /\ \E t \in TaskIds :
       /\ t # lastOp.move.taskId
       /\ tasksTable[t].due_date # NULL
       /\ tasksTable[t] = lastOp.before[t]
  /\ lastOp.check.tasksToMove # <<>>

====
